---- MODULE Spec2Model ----
(***************************************************************************)
(* A state-machine model of the pallet runtime: the system pallet (block   *)
(* number, nonces, block hashes), the balances pallet (ledger, flat fee,   *)
(* fee recipient), the staking pallet (validators, stakes, rewards) and    *)
(* the Runtime that composes them (create_block, execute_block, dispatch). *)
(* Every Rust method is an operator from the pallet's state (a record) to  *)
(* the new state and the method's result; every action applies one whole   *)
(* method call.                                                            *)
(***************************************************************************)
EXTENDS Integers, Sequences, FiniteSets, TLC

VARIABLES
    system,           \* Runtime.system   : system::Pallet
    balances,         \* Runtime.balances : balances::Pallet
    staking,          \* Runtime.staking  : staking::Pallet
    overflow_checks,  \* build profile: TRUE = overflow panics, FALSE = overflow wraps
    panicked,         \* the process has panicked (no further call is made)
    submitted,        \* history: per account, the extrinsics executed blocks carried for it
    calls,            \* history: number of calls made to the staking pallet on its own
    last              \* history: the last call, its arguments, result and pre-state

vars == <<system, balances, staking, overflow_checks, panicked, submitted, calls, last>>

----------------------------------------------------------------------------
(* Bounds of the model.                                                    *)

\* Largest value of T::Balance (stands for u128::MAX).
BalanceMax == 255

\* Largest value of u32 counters that can underflow (stands for u32::MAX).
CountMax == 7

\* Number of blocks a behaviour may produce.
MaxBlocks == 3

\* Number of calls a behaviour of the staking pallet may make.
MaxCalls == 5

\* Number of calls a behaviour of the system pallet may make.
MaxSystemCalls == 7

\* Longest transaction / extrinsic list of a block.
MaxTxs == 2

Accounts == {"alice", "bob", "treasury"}

\* Option<T>::None for account ids.
None == "None"

----------------------------------------------------------------------------
(* Maps (BTreeMap) and checked arithmetic.                                 *)

\* BTreeMap::insert
Insert(m, k, v) == [x \in (DOMAIN m) \cup {k} |-> IF x = k THEN v ELSE m[x]]

\* Mutant of Remove: the entry is left in the map.
Remove_keeps_entry(m, k) == m

\* BTreeMap::remove
Remove(m, k) == [x \in (DOMAIN m) \ {k} |-> m[x]]

EmptyMap == [x \in {} |-> 0]

\* Option<Balance>: Some(v) / None
Some(v) == [some |-> TRUE, val |-> v]

NoneVal == [some |-> FALSE, val |-> 0]

\* Mutant of checked_add: the sum wraps instead of reporting the overflow.
checked_add_wrapping(a, b) == Some((a + b) % (BalanceMax + 1))

\* CheckedAdd::checked_add on T::Balance
checked_add(a, b) == IF a + b > BalanceMax THEN NoneVal ELSE Some(a + b)

\* CheckedSub::checked_sub on T::Balance
checked_sub(a, b) == IF a < b THEN NoneVal ELSE Some(a - b)

RECURSIVE SumOver(_, _)
\* Sum of f[x] over the keys in S (mathematical integers, no width).
SumOver(f, S) ==
    IF S = {} THEN 0
    ELSE LET x == CHOOSE y \in S : TRUE IN f[x] + SumOver(f, S \ {x})

----------------------------------------------------------------------------
(* balances::Pallet                                                        *)

\* Pallet::new_with_fee_config
balances_new_with_fee_config(base_fee, fee_recipient) ==
    [balances |-> EmptyMap, base_fee |-> base_fee, fee_recipient |-> fee_recipient]

\* Pallet::new
balances_new == balances_new_with_fee_config(0, None)

\* Pallet::balance
balance(b, who) == IF who \in DOMAIN b.balances THEN b.balances[who] ELSE 0

\* Pallet::set_balance
set_balance(b, who, amount) == [b EXCEPT !.balances = Insert(@, who, amount)]

\* Pallet::set_transaction_fee
set_transaction_fee(b, fee) == [b EXCEPT !.base_fee = fee]

\* Pallet::get_transaction_fee
get_transaction_fee(b) == b.base_fee

\* Pallet::set_fee_recipient
set_fee_recipient(b, recipient) == [b EXCEPT !.fee_recipient = recipient]

\* Pallet::calculate_fee
calculate_fee(b, amount) == b.base_fee

\* Pallet::get_transfer_cost
get_transfer_cost(b, amount) ==
    LET total == checked_add(amount, calculate_fee(b, amount))
    IN  IF total.some THEN [res |-> "Ok", val |-> total.val]
        ELSE [res |-> "OverflowInCalculation", val |-> 0]

\* Mutant of handle_fee_payment: the fee is credited but never debited.
handle_fee_payment_no_debit(b, who, fee) ==
    IF b.fee_recipient # None /\ balance(b, b.fee_recipient) + fee <= BalanceMax
    THEN [st |-> [b EXCEPT !.balances =
                     Insert(@, b.fee_recipient, balance(b, b.fee_recipient) + fee)],
          res |-> "Ok"]
    ELSE [st |-> b, res |-> "Ok"]

\* Pallet::handle_fee_payment
handle_fee_payment(b, who, fee) ==
    LET payer_balance == balance(b, who)
        new_balance == checked_sub(payer_balance, fee)
    IN  IF ~new_balance.some THEN [st |-> b, res |-> "InsufficientFunds"]
        ELSE
        LET b1 == [b EXCEPT !.balances = Insert(@, who, new_balance.val)]
        IN  IF b1.fee_recipient # None
            THEN LET recipient == b1.fee_recipient
                     recipient_balance == balance(b1, recipient)
                     new_recipient_balance == checked_add(recipient_balance, fee)
                 IN  IF ~new_recipient_balance.some
                     THEN [st |-> b1, res |-> "OverflowInCalculation"]
                     ELSE [st |-> [b1 EXCEPT !.balances =
                                      Insert(@, recipient, new_recipient_balance.val)],
                           res |-> "Ok"]
            ELSE [st |-> b1, res |-> "Ok"]

\* Pallet::transfer
transfer(b, sender, receiver, amount) ==
    LET fee == calculate_fee(b, amount)
        sender_balance == balance(b, sender)
        receiver_balance == balance(b, receiver)
        total_needed == checked_add(amount, fee)
        new_sender_balance == checked_sub(sender_balance, amount)
        new_receiver_balance == checked_add(receiver_balance, amount)
    IN  IF ~total_needed.some THEN [st |-> b, res |-> "OverflowInCalculation"]
        ELSE IF sender_balance < total_needed.val
        THEN [st |-> b, res |-> "InsufficientBalance"]
        ELSE IF ~new_sender_balance.some THEN [st |-> b, res |-> "InsufficientFunds"]
        ELSE IF ~new_receiver_balance.some THEN [st |-> b, res |-> "OverflowInTransfer"]
        ELSE
        LET b1 == [b EXCEPT !.balances =
                      Insert(Insert(@, sender, new_sender_balance.val),
                             receiver, new_receiver_balance.val)]
        IN  handle_fee_payment(b1, sender, fee)

----------------------------------------------------------------------------
(* staking::Pallet                                                         *)

\* Account ids in BTreeMap (Ord for String) iteration order.
AccountOrder == <<"alice", "bob", "treasury", "v1", "v2">>

\* Pallet::new_with_config
staking_new_with_config(minimum_stake, reward_rate, unstaking_period, max_validators) ==
    [stakes |-> EmptyMap, validators |-> EmptyMap,
     minimum_stake |-> minimum_stake, reward_rate |-> reward_rate,
     unstaking_period |-> unstaking_period, max_validators |-> max_validators,
     total_staked |-> 0, current_block |-> 0, events |-> <<>>]

\* Pallet::new
staking_new == staking_new_with_config(0, 0, 0, 10)

\* StakingEvent variants
EvValidatorAdded(v) == [kind |-> "ValidatorAdded", who |-> v, amount |-> 0, validator |-> v]

EvValidatorRemoved(v) == [kind |-> "ValidatorRemoved", who |-> v, amount |-> 0, validator |-> v]

EvStaked(w, a, v) == [kind |-> "Staked", who |-> w, amount |-> a, validator |-> v]

EvUnstaked(w, a) == [kind |-> "Unstaked", who |-> w, amount |-> a, validator |-> None]

EvRewardsPaid(w, a) == [kind |-> "RewardsPaid", who |-> w, amount |-> a, validator |-> None]

\* Mutant of add_validator: the capacity of the registry is not checked.
add_validator_no_capacity(s, validator, commission_rate) ==
    IF validator \in DOMAIN s.validators THEN [st |-> s, res |-> "AlreadyValidator"]
    ELSE IF commission_rate > 100 THEN [st |-> s, res |-> "InvalidValidator"]
    ELSE
    LET validator_info == [total_stake |-> 0, commission_rate |-> commission_rate,
                           is_active |-> TRUE, nominators_count |-> 0,
                           blocks_produced |-> 0]
    IN  [st |-> [s EXCEPT !.validators = Insert(@, validator, validator_info),
                          !.events = Append(@, EvValidatorAdded(validator))],
         res |-> "Ok"]

\* Pallet::add_validator
add_validator(s, validator, commission_rate) ==
    IF validator \in DOMAIN s.validators THEN [st |-> s, res |-> "AlreadyValidator"]
    ELSE IF Cardinality(DOMAIN s.validators) >= s.max_validators
    THEN [st |-> s, res |-> "TooManyValidators"]
    ELSE IF commission_rate > 100 THEN [st |-> s, res |-> "InvalidValidator"]
    ELSE
    LET validator_info == [total_stake |-> 0, commission_rate |-> commission_rate,
                           is_active |-> TRUE, nominators_count |-> 0,
                           blocks_produced |-> 0]
    IN  [st |-> [s EXCEPT !.validators = Insert(@, validator, validator_info),
                          !.events = Append(@, EvValidatorAdded(validator))],
         res |-> "Ok"]

\* Mutant of remove_validator: the stakes naming the validator are dropped too.
remove_validator_drops_stakes(s, validator) ==
    IF validator \notin DOMAIN s.validators THEN [st |-> s, res |-> "NotValidator"]
    ELSE [st |-> [s EXCEPT !.validators = Remove(@, validator),
                           !.stakes = [a \in {x \in DOMAIN @ : @[x].validator # validator}
                                          |-> @[a]],
                           !.events = Append(@, EvValidatorRemoved(validator))],
          res |-> "Ok"]

\* Mutant of remove_validator: the removal is not logged.
remove_validator_silent(s, validator) ==
    IF validator \notin DOMAIN s.validators THEN [st |-> s, res |-> "NotValidator"]
    ELSE [st |-> [s EXCEPT !.validators = Remove(@, validator)],
          res |-> "Ok"]

\* Pallet::remove_validator
remove_validator(s, validator) ==
    IF validator \notin DOMAIN s.validators THEN [st |-> s, res |-> "NotValidator"]
    ELSE [st |-> [s EXCEPT !.validators = Remove(@, validator),
                           !.events = Append(@, EvValidatorRemoved(validator))],
          res |-> "Ok"]

\* Mutant of stake: the balance of the caller is not checked.
stake_no_balance_check(s, who, amount, validator, balance_of_who, checks) ==
    IF who \in DOMAIN s.stakes THEN [st |-> s, res |-> "AlreadyStaked"]
    ELSE IF amount < s.minimum_stake THEN [st |-> s, res |-> "MinimumStakeNotMet"]
    ELSE IF validator \notin DOMAIN s.validators THEN [st |-> s, res |-> "InvalidValidator"]
    ELSE IF ~s.validators[validator].is_active THEN [st |-> s, res |-> "InvalidValidator"]
    ELSE
    LET stake_info == [staked_amount |-> amount, validator |-> validator,
                       stake_block |-> s.current_block,
                       last_reward_block |-> s.current_block,
                       total_rewards |-> 0]
        validator_info == s.validators[validator]
        new_total_stake == checked_add(validator_info.total_stake, amount)
    IN  IF ~new_total_stake.some THEN [st |-> s, res |-> "RewardCalculationError"]
        ELSE
        LET s1 == [s EXCEPT !.validators[validator].total_stake = new_total_stake.val]
            count == validator_info.nominators_count
        IN  IF count = CountMax /\ checks THEN [st |-> s1, res |-> "panic"]
            ELSE
            LET s2 == [s1 EXCEPT !.validators[validator].nominators_count =
                                     IF count = CountMax THEN 0 ELSE count + 1,
                                 !.stakes = Insert(@, who, stake_info)]
                new_total_staked == checked_add(s2.total_staked, amount)
            IN  IF ~new_total_staked.some
                THEN [st |-> s2, res |-> "RewardCalculationError"]
                ELSE [st |-> [s2 EXCEPT !.total_staked = new_total_staked.val,
                                        !.events = Append(@, EvStaked(who, amount, validator))],
                      res |-> "Ok"]

\* Pallet::stake; balance_of_who is the value of balance_check(&who).
\* `nominators_count += 1` is unchecked u32 arithmetic: at u32::MAX it panics
\* (overflow checks on) or wraps to 0 (overflow checks off).
stake(s, who, amount, validator, balance_of_who, checks) ==
    IF who \in DOMAIN s.stakes THEN [st |-> s, res |-> "AlreadyStaked"]
    ELSE IF amount < s.minimum_stake THEN [st |-> s, res |-> "MinimumStakeNotMet"]
    ELSE IF validator \notin DOMAIN s.validators THEN [st |-> s, res |-> "InvalidValidator"]
    ELSE IF ~s.validators[validator].is_active THEN [st |-> s, res |-> "InvalidValidator"]
    ELSE IF balance_of_who < amount THEN [st |-> s, res |-> "InsufficientBalance"]
    ELSE
    LET stake_info == [staked_amount |-> amount, validator |-> validator,
                       stake_block |-> s.current_block,
                       last_reward_block |-> s.current_block,
                       total_rewards |-> 0]
        validator_info == s.validators[validator]
        new_total_stake == checked_add(validator_info.total_stake, amount)
    IN  IF ~new_total_stake.some THEN [st |-> s, res |-> "RewardCalculationError"]
        ELSE
        LET s1 == [s EXCEPT !.validators[validator].total_stake = new_total_stake.val]
            count == validator_info.nominators_count
        IN  IF count = CountMax /\ checks THEN [st |-> s1, res |-> "panic"]
            ELSE
            LET s2 == [s1 EXCEPT !.validators[validator].nominators_count =
                                     IF count = CountMax THEN 0 ELSE count + 1,
                                 !.stakes = Insert(@, who, stake_info)]
                new_total_staked == checked_add(s2.total_staked, amount)
            IN  IF ~new_total_staked.some
                THEN [st |-> s2, res |-> "RewardCalculationError"]
                ELSE [st |-> [s2 EXCEPT !.total_staked = new_total_staked.val,
                                        !.events = Append(@, EvStaked(who, amount, validator))],
                      res |-> "Ok"]

\* Pallet::unstake
\* `nominators_count -= 1` is unchecked u32 arithmetic: at 0 it panics
\* (overflow checks on) or wraps to u32::MAX (overflow checks off).
unstake(s, who, checks) ==
    IF who \notin DOMAIN s.stakes THEN [st |-> s, res |-> "NotStaked", val |-> 0]
    ELSE
    LET stake_info == s.stakes[who]
        stake_block_plus_period == stake_info.stake_block
    IN  IF s.current_block < stake_block_plus_period
        THEN [st |-> s, res |-> "UnstakingPeriodNotMet", val |-> 0]
        ELSE
        LET staked_amount == stake_info.staked_amount
            validator == stake_info.validator
            registered == validator \in DOMAIN s.validators
            new_total_stake ==
                IF registered
                THEN checked_sub(s.validators[validator].total_stake, staked_amount)
                ELSE NoneVal
            count == IF registered THEN s.validators[validator].nominators_count ELSE 0
            s1 == IF registered
                  THEN [s EXCEPT !.validators[validator].total_stake = new_total_stake.val]
                  ELSE s
            s2 == IF registered
                  THEN [s1 EXCEPT !.validators[validator].nominators_count =
                                      IF count = 0 THEN CountMax ELSE count - 1]
                  ELSE s
            s3 == [s2 EXCEPT !.stakes = Remove(@, who)]
            new_total_staked == checked_sub(s3.total_staked, staked_amount)
        IN  IF registered /\ ~new_total_stake.some
            THEN [st |-> s, res |-> "RewardCalculationError", val |-> 0]
            ELSE IF registered /\ count = 0 /\ checks
            THEN [st |-> s1, res |-> "panic", val |-> 0]
            ELSE IF ~new_total_staked.some
            THEN [st |-> s3, res |-> "RewardCalculationError", val |-> 0]
            ELSE [st |-> [s3 EXCEPT !.total_staked = new_total_staked.val,
                                    !.events = Append(@, EvUnstaked(who, staked_amount))],
                  res |-> "Ok", val |-> staked_amount]

\* Pallet::calculate_rewards
calculate_rewards(s, who) ==
    IF who \notin DOMAIN s.stakes THEN [res |-> "NotStaked", val |-> 0]
    ELSE
    LET stake_info == s.stakes[who]
        base_reward == s.reward_rate
        net_reward == base_reward
    IN  IF stake_info.validator \in DOMAIN s.validators
        THEN [res |-> "Ok", val |-> net_reward]
        ELSE [res |-> "InvalidValidator", val |-> 0]

\* Pallet::claim_rewards
claim_rewards(s, who) ==
    LET reward == calculate_rewards(s, who)
    IN  IF reward.res # "Ok" THEN [st |-> s, res |-> reward.res, val |-> 0]
        ELSE
        LET reward_amount == reward.val
            s1 == [s EXCEPT !.stakes[who].last_reward_block = s.current_block]
            new_total_rewards == checked_add(s1.stakes[who].total_rewards, reward_amount)
        IN  IF ~new_total_rewards.some
            THEN [st |-> s1, res |-> "RewardCalculationError", val |-> 0]
            ELSE [st |-> [s1 EXCEPT !.stakes[who].total_rewards = new_total_rewards.val,
                                    !.events = Append(@, EvRewardsPaid(who, reward_amount))],
                  res |-> "Ok", val |-> reward_amount]

RECURSIVE distribute_from(_, _, _)
\* The loop of Pallet::distribute_rewards over the staker keys collected
\* before the loop, from position i of the key order.
distribute_from(s, stakers, i) ==
    IF i > Len(AccountOrder) THEN s
    ELSE IF AccountOrder[i] \in stakers
    THEN distribute_from(claim_rewards(s, AccountOrder[i]).st, stakers, i + 1)
    ELSE distribute_from(s, stakers, i + 1)

\* Pallet::distribute_rewards
distribute_rewards(s) == distribute_from(s, DOMAIN s.stakes, 1)

\* Mutant of on_block: the block number is stored, no reward is distributed.
on_block_no_rewards(s, block_number) == [s EXCEPT !.current_block = block_number]

\* Pallet::on_block
on_block(s, block_number) == distribute_rewards([s EXCEPT !.current_block = block_number])

\* Pallet::clear_events
clear_events(s) == [s EXCEPT !.events = <<>>]

\* Pallet::get_active_validators (the ids)
get_active_validators(s) == {v \in DOMAIN s.validators : s.validators[v].is_active}

\* Pallet::get_staking_stats
get_staking_stats(s) ==
    LET total_stakers == Cardinality(DOMAIN s.stakes)
    IN  [total_staked |-> s.total_staked,
         total_validators |-> Cardinality(DOMAIN s.validators),
         active_validators |-> Cardinality(get_active_validators(s)),
         total_stakers |-> total_stakers,
         average_stake |-> IF total_stakers > 0 THEN s.total_staked ELSE 0]

----------------------------------------------------------------------------
(* system::Pallet                                                          *)

\* Pallet::new
system_new == [block_number |-> 0, nonce |-> EmptyMap, block_hashes |-> EmptyMap]

\* Pallet::block_number
block_number(sy) == sy.block_number

\* Pallet::inc_block_number
inc_block_number(sy) == [sy EXCEPT !.block_number = @ + 1]

\* Mutant of inc_nonce: the nonce is stored as one instead of incremented.
inc_nonce_resets(sy, who) == [sy EXCEPT !.nonce = Insert(@, who, 1)]

\* Pallet::inc_nonce
inc_nonce(sy, who) ==
    LET nonce == IF who \in DOMAIN sy.nonce THEN sy.nonce[who] ELSE 0
        new_nonce == nonce + 1
    IN  [sy EXCEPT !.nonce = Insert(@, who, new_nonce)]

\* u32::to_be_bytes
to_be_bytes(n) ==
    <<(n \div 16777216) % 256, (n \div 65536) % 256, (n \div 256) % 256, n % 256>>

\* Mutant of generate_block_hash: bytes 4..8 count the stored block hashes
\* instead of the tracked nonces.
generate_block_hash_counts_hashes(sy) ==
    LET block_num_as_u32 == IF sy.block_number = 0 THEN 0 ELSE 1
    IN  [k \in 1..32 |->
            IF k <= 4 THEN to_be_bytes(block_num_as_u32)[k]
            ELSE IF k <= 8 THEN to_be_bytes(Cardinality(DOMAIN sy.block_hashes))[k - 4]
            ELSE ((k - 1) + block_num_as_u32) % 256]

\* Pallet::generate_block_hash: the 32 bytes, hash[i] of the source at index i + 1.
generate_block_hash(sy) ==
    LET block_num_as_u32 == IF sy.block_number = 0 THEN 0 ELSE 1
        block_bytes == to_be_bytes(block_num_as_u32)
        nonce_count == Cardinality(DOMAIN sy.nonce)
        nonce_bytes == to_be_bytes(nonce_count)
    IN  [k \in 1..32 |->
            IF k <= 4 THEN block_bytes[k]
            ELSE IF k <= 8 THEN nonce_bytes[k - 4]
            ELSE ((k - 1) + block_num_as_u32) % 256]

\* Mutant of finalize_block: the record keeps only the hash just made.
finalize_block_keeps_latest(sy) ==
    [st |-> [sy EXCEPT !.block_hashes =
                Insert(EmptyMap, sy.block_number, generate_block_hash(sy))],
     val |-> generate_block_hash(sy)]

\* Pallet::finalize_block
finalize_block(sy) ==
    LET hash == generate_block_hash(sy)
    IN  [st |-> [sy EXCEPT !.block_hashes = Insert(@, sy.block_number, hash)],
         val |-> hash]

\* Option<[u8; 32]>
SomeHash(h) == [some |-> TRUE, val |-> h]

NoneHash == [some |-> FALSE, val |-> <<>>]

\* Pallet::get_block_hash
get_block_hash(sy, n) ==
    IF n \in DOMAIN sy.block_hashes THEN SomeHash(sy.block_hashes[n]) ELSE NoneHash

\* Pallet::current_block_hash
current_block_hash(sy) == get_block_hash(sy, sy.block_number)

\* Pallet::parent_block_hash: the hash stored under the second largest key.
parent_block_hash(sy) ==
    IF sy.block_number > 0
    THEN LET keys == DOMAIN sy.block_hashes
             below == {k \in keys : \E j \in keys : j > k}
         IN  IF below # {}
             THEN get_block_hash(sy, CHOOSE k \in below : \A j \in below : j <= k)
             ELSE NoneHash
    ELSE NoneHash

\* Pallet::all_block_hashes
all_block_hashes(sy) == sy.block_hashes

\* Pallet::genesis_hash
genesis_hash(sy) == get_block_hash(sy, 0)

----------------------------------------------------------------------------
(* system_improvement.rs: the earlier Pallet with concrete types.  Its     *)
(* fields, new, inc_block_number, inc_nonce, get_block_hash and            *)
(* finalize_block read as those of system::Pallet; the hash differs.       *)

\* u32::saturating_sub
saturating_sub(a, b) == IF a < b THEN 0 ELSE a - b

\* Mutant of system_improvement.rs generate_block_hash: bytes 4..8 count the
\* stored block hashes instead of summing the nonces.
improvement_generate_block_hash_counts_hashes(sy) ==
    LET parent == get_block_hash(sy, saturating_sub(sy.block_number, 1))
    IN  [k \in 1..32 |->
            IF k <= 4 THEN to_be_bytes(sy.block_number)[k]
            ELSE IF k <= 8 THEN to_be_bytes(Cardinality(DOMAIN sy.block_hashes))[k - 4]
            ELSE IF k <= 16 THEN (IF parent.some THEN parent.val[k - 8] ELSE 0)
            ELSE ((k - 1) + sy.block_number) % 256]

\* Mutant of system_improvement.rs generate_block_hash: the parent bytes are
\* read from the hash stored under the current block number.
improvement_generate_block_hash_reads_own(sy) ==
    LET parent == get_block_hash(sy, sy.block_number)
    IN  [k \in 1..32 |->
            IF k <= 4 THEN to_be_bytes(sy.block_number)[k]
            ELSE IF k <= 8 THEN to_be_bytes(SumOver(sy.nonce, DOMAIN sy.nonce))[k - 4]
            ELSE IF k <= 16 THEN (IF parent.some THEN parent.val[k - 8] ELSE 0)
            ELSE ((k - 1) + sy.block_number) % 256]

\* system_improvement.rs Pallet::generate_block_hash: block number, sum of the
\* nonces, the first eight bytes of the hash stored under block_number - 1
\* (saturating), and a pattern.
improvement_generate_block_hash(sy) ==
    LET block_bytes == to_be_bytes(sy.block_number)
        nonce_sum == SumOver(sy.nonce, DOMAIN sy.nonce)
        nonce_bytes == to_be_bytes(nonce_sum)
        parent == get_block_hash(sy, saturating_sub(sy.block_number, 1))
    IN  [k \in 1..32 |->
            IF k <= 4 THEN block_bytes[k]
            ELSE IF k <= 8 THEN nonce_bytes[k - 4]
            ELSE IF k <= 16 THEN (IF parent.some THEN parent.val[k - 8] ELSE 0)
            ELSE ((k - 1) + sy.block_number) % 256]

\* system_improvement.rs Pallet::finalize_block
improvement_finalize_block(sy) ==
    [st |-> [sy EXCEPT !.block_hashes =
                Insert(@, sy.block_number, improvement_generate_block_hash(sy))],
     val |-> improvement_generate_block_hash(sy)]

\* system_improvement.rs Pallet::parent_block_hash
improvement_parent_block_hash(sy) ==
    IF sy.block_number > 0 THEN get_block_hash(sy, sy.block_number - 1) ELSE NoneHash

----------------------------------------------------------------------------
(* Runtime (main.rs)                                                       *)

\* Runtime::new
runtime_new ==
    [system |-> system_new, balances |-> balances_new,
     staking |-> staking_new_with_config(100, 5, 10, 10)]

\* enum Transaction
TxTransfer(from, to, amount) ==
    [type |-> "Transfer", who |-> from, to |-> to, amount |-> amount, commission |-> 0]

TxSetBalance(who, amount) ==
    [type |-> "SetBalance", who |-> who, to |-> None, amount |-> amount, commission |-> 0]

TxAddValidator(validator, commission) ==
    [type |-> "AddValidator", who |-> None, to |-> validator, amount |-> 0,
     commission |-> commission]

TxStake(who, amount, validator) ==
    [type |-> "Stake", who |-> who, to |-> validator, amount |-> amount, commission |-> 0]

TxUnstake(who) ==
    [type |-> "Unstake", who |-> who, to |-> None, amount |-> 0, commission |-> 0]

TxClaimRewards(who) ==
    [type |-> "ClaimRewards", who |-> who, to |-> None, amount |-> 0, commission |-> 0]

\* Unchecked `a + b` on u128 when overflow checks are off.
wrapping_add(a, b) == (a + b) % (BalanceMax + 1)

\* Unchecked `a - b` on u128 when overflow checks are off.
wrapping_sub(a, b) == (a - b) % (BalanceMax + 1)

\* execute_transaction, Stake arm after staking.stake returned r: on success the
\* runtime writes `current_balance - amount` as the caller's balance.
debit_staked(rt, sy, who, amount, r, checks) ==
    LET rt1 == [rt EXCEPT !.system = sy, !.staking = r.st]
        current_balance == balance(rt.balances, who)
    IN  IF r.res # "Ok" THEN [st |-> rt1, res |-> r.res]
        ELSE IF current_balance < amount /\ checks
        THEN [st |-> rt1, res |-> "panic"]
        ELSE [st |-> [rt1 EXCEPT !.balances =
                         set_balance(@, who, wrapping_sub(current_balance, amount))],
              res |-> "Ok"]

\* execute_transaction, Unstake and ClaimRewards arms after the staking pallet
\* returned r: on success the runtime writes `current_balance + amount` (the
\* amount the pallet returned) as the caller's balance.
credit_returned(rt, sy, who, r, checks) ==
    LET rt1 == [rt EXCEPT !.system = sy, !.staking = r.st]
        current_balance == balance(rt.balances, who)
    IN  IF r.res # "Ok" THEN [st |-> rt1, res |-> r.res]
        ELSE IF current_balance + r.val > BalanceMax /\ checks
        THEN [st |-> rt1, res |-> "panic"]
        ELSE [st |-> [rt1 EXCEPT !.balances =
                         set_balance(@, who, wrapping_add(current_balance, r.val))],
              res |-> "Ok"]

\* Runtime::execute_transaction
execute_transaction(rt, tx, checks) ==
    CASE tx.type = "Transfer" ->
            LET r == transfer(rt.balances, tx.who, tx.to, tx.amount)
            IN  [st |-> [rt EXCEPT !.system = inc_nonce(@, tx.who), !.balances = r.st],
                 res |-> r.res]
      [] tx.type = "SetBalance" ->
            [st |-> [rt EXCEPT !.balances = set_balance(@, tx.who, tx.amount)],
             res |-> "Ok"]
      [] tx.type = "AddValidator" ->
            LET r == add_validator(rt.staking, tx.to, tx.commission)
            IN  [st |-> [rt EXCEPT !.staking = r.st], res |-> r.res]
      [] tx.type = "Stake" ->
            debit_staked(rt, inc_nonce(rt.system, tx.who), tx.who, tx.amount,
                         stake(rt.staking, tx.who, tx.amount, tx.to,
                               balance(rt.balances, tx.who), checks),
                         checks)
      [] tx.type = "Unstake" ->
            credit_returned(rt, inc_nonce(rt.system, tx.who), tx.who,
                            unstake(rt.staking, tx.who, checks), checks)
      [] tx.type = "ClaimRewards" ->
            credit_returned(rt, inc_nonce(rt.system, tx.who), tx.who,
                            claim_rewards(rt.staking, tx.who), checks)

RECURSIVE run_transactions(_, _, _, _)
RECURSIVE after_transaction(_, _, _, _)
\* The transaction loop of Runtime::create_block from position i: the state
\* after it and the result of every transaction run ("panic" ends the loop).
run_transactions(rt, txs, i, checks) ==
    IF i > Len(txs) THEN [st |-> rt, results |-> <<>>]
    ELSE after_transaction(execute_transaction(rt, txs[i], checks), txs, i, checks)

\* The loop of create_block once transaction i has returned r.
after_transaction(r, txs, i, checks) ==
    IF r.res = "panic" THEN [st |-> r.st, results |-> <<"panic">>]
    ELSE LET rest == run_transactions(r.st, txs, i + 1, checks)
         IN  [st |-> rest.st, results |-> <<r.res>> \o rest.results]

\* Runtime::create_block after the transaction loop returned run: the block is
\* finalized and the BlockResult built.
seal_block(run, current_block) ==
    LET fin == finalize_block(run.st.system)
    IN  IF Len(run.results) > 0 /\ run.results[Len(run.results)] = "panic"
        THEN [st |-> run.st, res |-> "panic", results |-> run.results,
              block_number |-> current_block, block_hash |-> <<>>]
        ELSE [st |-> [run.st EXCEPT !.system = fin.st], res |-> "Ok",
              results |-> run.results,
              block_number |-> current_block, block_hash |-> fin.val]

\* Runtime::create_block
create_block(rt, txs, checks) ==
    LET sy == inc_block_number(rt.system)
        current_block == block_number(sy)
        rt1 == [rt EXCEPT !.system = sy, !.staking = on_block(@, current_block)]
    IN  seal_block(run_transactions(rt1, txs, 1, checks), current_block)

\* balances::Call and staking::Call wrapped in RuntimeCall
CallTransfer(to, amount) ==
    [pallet |-> "Balances", call |-> "Transfer", to |-> to, amount |-> amount,
     commission |-> 0]

CallAddValidator(validator, commission) ==
    [pallet |-> "Staking", call |-> "AddValidator", to |-> validator, amount |-> 0,
     commission |-> commission]

CallStake(validator, amount) ==
    [pallet |-> "Staking", call |-> "Stake", to |-> validator, amount |-> amount,
     commission |-> 0]

CallUnstake ==
    [pallet |-> "Staking", call |-> "Unstake", to |-> None, amount |-> 0, commission |-> 0]

CallClaimRewards ==
    [pallet |-> "Staking", call |-> "ClaimRewards", to |-> None, amount |-> 0,
     commission |-> 0]

\* support::Extrinsic
Extrinsic(caller, call) == [caller |-> caller, call |-> call]

\* impl Dispatch for balances::Pallet
balances_dispatch(b, caller, call) ==
    LET r == transfer(b, caller, call.to, call.amount)
    IN  [st |-> r.st, res |-> IF r.res = "Ok" THEN "Ok" ELSE "Transfer failed"]

\* impl Dispatch for staking::Pallet
staking_dispatch(s, caller, call, checks) ==
    CASE call.call = "AddValidator" ->
            LET r == add_validator(s, call.to, call.commission)
            IN  [st |-> r.st,
                 res |-> IF r.res = "Ok" THEN "Ok" ELSE "Failed to add validator"]
      [] call.call = "Stake" ->
            [st |-> s, res |-> "Staking through dispatch not implemented yet"]
      [] call.call = "Unstake" ->
            LET r == unstake(s, caller, checks)
            IN  [st |-> r.st,
                 res |-> IF r.res \in {"Ok", "panic"} THEN r.res ELSE "Failed to unstake"]
      [] call.call = "ClaimRewards" ->
            LET r == claim_rewards(s, caller)
            IN  [st |-> r.st,
                 res |-> IF r.res = "Ok" THEN "Ok" ELSE "Failed to claim rewards"]

\* Mutant of the Runtime's dispatch: the module's error is dropped instead of
\* propagated by `?`.
dispatch_drops_error(rt, caller, call, checks) ==
    IF call.pallet = "Balances"
    THEN [st |-> [rt EXCEPT !.balances = balances_dispatch(@, caller, call).st],
          res |-> "Ok"]
    ELSE [st |-> [rt EXCEPT !.staking = staking_dispatch(@, caller, call, checks).st],
          res |-> "Ok"]

\* impl Dispatch for Runtime
dispatch(rt, caller, call, checks) ==
    IF call.pallet = "Balances"
    THEN LET r == balances_dispatch(rt.balances, caller, call)
         IN  [st |-> [rt EXCEPT !.balances = r.st], res |-> r.res]
    ELSE LET r == staking_dispatch(rt.staking, caller, call, checks)
         IN  [st |-> [rt EXCEPT !.staking = r.st], res |-> r.res]

RECURSIVE run_extrinsics(_, _, _, _)
RECURSIVE after_extrinsic(_, _, _, _)
\* The extrinsic loop of Runtime::execute_block from position i.
run_extrinsics(rt, extrinsics, i, checks) ==
    IF i > Len(extrinsics) THEN [st |-> rt, results |-> <<>>]
    ELSE after_extrinsic(
             dispatch([rt EXCEPT !.system = inc_nonce(@, extrinsics[i].caller)],
                      extrinsics[i].caller, extrinsics[i].call, checks),
             extrinsics, i, checks)

\* The loop of execute_block once the dispatch of extrinsic i has returned r.
after_extrinsic(r, extrinsics, i, checks) ==
    IF r.res = "panic" THEN [st |-> r.st, results |-> <<"panic">>]
    ELSE LET rest == run_extrinsics(r.st, extrinsics, i + 1, checks)
         IN  [st |-> rest.st, results |-> <<r.res>> \o rest.results]

\* support::Block
Block(header_block_number, extrinsics) ==
    [header |-> [block_number |-> header_block_number], extrinsics |-> extrinsics]

\* Runtime::execute_block after the extrinsic loop returned run.
block_outcome(run) ==
    [st |-> run.st,
     res |-> IF Len(run.results) > 0 /\ run.results[Len(run.results)] = "panic"
             THEN "panic" ELSE "Ok",
     results |-> run.results]

\* Mutant of execute_block: the header's block number is not checked.
execute_block_any_header(rt, block, checks) ==
    block_outcome(run_extrinsics([rt EXCEPT !.system = inc_block_number(@)],
                                 block.extrinsics, 1, checks))

\* Runtime::execute_block
execute_block(rt, block, checks) ==
    LET rt1 == [rt EXCEPT !.system = inc_block_number(@)]
    IN  IF block_number(rt1.system) # block.header.block_number
        THEN [st |-> rt1, res |-> "block number does not match what is expected",
              results |-> <<>>]
        ELSE block_outcome(run_extrinsics(rt1, block.extrinsics, 1, checks))

\* Runtime::verify_chain_integrity
verify_chain_integrity(rt) ==
    \A block_num \in 1..block_number(rt.system) :
        block_num \in DOMAIN all_block_hashes(rt.system)

----------------------------------------------------------------------------
(* Actions: one call of a public method each.                              *)

\* The three pallets as the Runtime holds them.
Cur == [system |-> system, balances |-> balances, staking |-> staking]

\* The record of a call: its name, arguments, result and the state before it.
Call(op, who, to, amount, input, res, val) ==
    [op |-> op, who |-> who, to |-> to, amount |-> amount, input |-> input,
     res |-> res, val |-> val, pre |-> Cur]

\* All lists over S of length at most n.
SeqsUpTo(S, n) == UNION {[1..k -> S] : k \in 0..n}

\* Every account id the model uses.
AllAccounts == {AccountOrder[i] : i \in 1..Len(AccountOrder)}

NoSubmissions == [a \in AllAccounts |-> 0]

\* ---- balances::Pallet ----

\* Amounts are multiples of one hundred, or the largest Balance: the ledger
\* then takes few values and every overflow and shortfall case occurs.
TransferAmounts == {0, 100, BalanceMax}

SetAmounts == {0, 100, BalanceMax}

Fees == {0, 100}

Transfer(sender, receiver, amount) ==
    /\ ~panicked
    /\ LET r == transfer(balances, sender, receiver, amount)
       IN  /\ balances' = r.st
           /\ last' = Call("transfer", sender, receiver, amount, <<>>, r.res, 0)
    /\ UNCHANGED <<system, staking, overflow_checks, panicked, submitted, calls>>

SetBalance(who, amount) ==
    /\ ~panicked
    /\ balances' = set_balance(balances, who, amount)
    /\ last' = Call("set_balance", who, None, amount, <<>>, "Ok", 0)
    /\ UNCHANGED <<system, staking, overflow_checks, panicked, submitted, calls>>

SetTransactionFee(fee) ==
    /\ ~panicked
    /\ balances' = set_transaction_fee(balances, fee)
    /\ last' = Call("set_transaction_fee", None, None, fee, <<>>, "Ok", 0)
    /\ UNCHANGED <<system, staking, overflow_checks, panicked, submitted, calls>>

SetFeeRecipient(recipient) ==
    /\ ~panicked
    /\ balances' = set_fee_recipient(balances, recipient)
    /\ last' = Call("set_fee_recipient", None, recipient, 0, <<>>, "Ok", 0)
    /\ UNCHANGED <<system, staking, overflow_checks, panicked, submitted, calls>>

InitBalances ==
    /\ system = system_new
    /\ staking = staking_new
    /\ \E fee \in Fees, recipient \in {None, "treasury"} :
          balances = balances_new_with_fee_config(fee, recipient)
    /\ overflow_checks \in BOOLEAN
    /\ panicked = FALSE
    /\ submitted = NoSubmissions
    /\ calls = 0
    /\ last = Call("new", None, None, 0, <<>>, "Ok", 0)

NextBalances ==
    \/ \E sender \in Accounts, receiver \in Accounts, amount \in TransferAmounts :
          Transfer(sender, receiver, amount)
    \/ \E who \in Accounts, amount \in SetAmounts : SetBalance(who, amount)
    \/ \E fee \in Fees : SetTransactionFee(fee)
    \/ \E recipient \in {None, "treasury"} : SetFeeRecipient(recipient)

\* The balances pallet on its own.
SpecBalances == InitBalances /\ [][NextBalances]_vars

\* ---- staking::Pallet ----

Stakers == {"alice", "bob"}

ValidatorIds == {"v1", "v2"}

StakeAmounts == {0, 100, BalanceMax}

\* Values the balance_check capability may report for the staker.
BalanceChecks == {50, BalanceMax}

Commissions == {5, 150}

\* The constructions of the pallet: new(), and new_with_config with a minimum
\* stake, a reward rate, a lock-up period and a single validator slot.
StakingConfigs ==
    {staking_new, staking_new_with_config(100, 100, 2, 1)}

AddValidator(validator, commission) ==
    /\ ~panicked
    /\ calls < MaxCalls
    /\ calls' = calls + 1
    /\ LET r == add_validator(staking, validator, commission)
       IN  /\ staking' = r.st
           /\ last' = Call("add_validator", None, validator, commission, <<>>, r.res, 0)
    /\ UNCHANGED <<system, balances, overflow_checks, panicked, submitted>>

RemoveValidator(validator) ==
    /\ ~panicked
    /\ calls < MaxCalls
    /\ calls' = calls + 1
    /\ LET r == remove_validator(staking, validator)
       IN  /\ staking' = r.st
           /\ last' = Call("remove_validator", None, validator, 0, <<>>, r.res, 0)
    /\ UNCHANGED <<system, balances, overflow_checks, panicked, submitted>>

Stake(who, amount, validator, balance_of_who) ==
    /\ ~panicked
    /\ calls < MaxCalls
    /\ calls' = calls + 1
    /\ LET r == stake(staking, who, amount, validator, balance_of_who, overflow_checks)
       IN  /\ staking' = r.st
           /\ panicked' = (r.res = "panic")
           /\ last' = Call("stake", who, validator, amount, <<balance_of_who>>, r.res, 0)
    /\ UNCHANGED <<system, balances, overflow_checks, submitted>>

Unstake(who) ==
    /\ ~panicked
    /\ calls < MaxCalls
    /\ calls' = calls + 1
    /\ LET r == unstake(staking, who, overflow_checks)
       IN  /\ staking' = r.st
           /\ panicked' = (r.res = "panic")
           /\ last' = Call("unstake", who, None, 0, <<>>, r.res, r.val)
    /\ UNCHANGED <<system, balances, overflow_checks, submitted>>

ClaimRewards(who) ==
    /\ ~panicked
    /\ calls < MaxCalls
    /\ calls' = calls + 1
    /\ LET r == claim_rewards(staking, who)
       IN  /\ staking' = r.st
           /\ last' = Call("claim_rewards", who, None, 0, <<>>, r.res, r.val)
    /\ UNCHANGED <<system, balances, overflow_checks, panicked, submitted>>

OnBlock(n) ==
    /\ ~panicked
    /\ calls < MaxCalls
    /\ calls' = calls + 1
    /\ staking' = on_block(staking, n)
    /\ last' = Call("on_block", None, None, n, <<>>, "Ok", 0)
    /\ UNCHANGED <<system, balances, overflow_checks, panicked, submitted>>

ClearEvents ==
    /\ ~panicked
    /\ calls < MaxCalls
    /\ calls' = calls + 1
    /\ staking' = clear_events(staking)
    /\ last' = Call("clear_events", None, None, 0, <<>>, "Ok", 0)
    /\ UNCHANGED <<system, balances, overflow_checks, panicked, submitted>>

InitStaking ==
    /\ system = system_new
    /\ balances = balances_new
    /\ staking \in StakingConfigs
    /\ overflow_checks \in BOOLEAN
    /\ panicked = FALSE
    /\ submitted = NoSubmissions
    /\ calls = 0
    /\ last = Call("new", None, None, 0, <<>>, "Ok", 0)

NextStaking ==
    \/ \E v \in ValidatorIds, c \in Commissions : AddValidator(v, c)
    \/ \E v \in ValidatorIds : RemoveValidator(v)
    \/ \E who \in Stakers, amount \in StakeAmounts, v \in ValidatorIds,
          bal \in BalanceChecks : Stake(who, amount, v, bal)
    \/ \E who \in Stakers : Unstake(who)
    \/ \E who \in Stakers : ClaimRewards(who)
    \/ \E n \in 0..MaxBlocks : OnBlock(n)
    \/ ClearEvents

\* The staking pallet on its own.
SpecStaking == InitStaking /\ [][NextStaking]_vars

\* Pallets set up as tests::test_staking does: a construction, one
\* add_validator and one successful stake. One has a reward rate of which two
\* payments exceed the largest Balance; the other is Pallet::new(), whose
\* minimum stake is zero, with a stake of zero.
StakedPallets ==
    {stake(add_validator(staking_new_with_config(100, 200, 2, 10), "v1", 5).st,
           "alice", 100, "v1", BalanceMax, TRUE).st,
     stake(add_validator(staking_new, "v1", 5).st,
           "alice", 0, "v1", BalanceMax, TRUE).st}

InitStaked ==
    /\ system = system_new
    /\ balances = balances_new
    /\ staking \in StakedPallets
    /\ overflow_checks \in BOOLEAN
    /\ panicked = FALSE
    /\ submitted = NoSubmissions
    /\ calls = 0
    /\ last = Call("new", None, None, 0, <<>>, "Ok", 0)

\* The staking pallet on its own, from a pallet that already holds a stake.
SpecStaked == InitStaked /\ [][NextStaking]_vars

\* ---- system::Pallet ----

\* Accounts whose nonce the system pallet is asked to raise.
NonceAccounts == {"alice", "bob"}

IncBlockNumber ==
    /\ calls < MaxSystemCalls
    /\ system.block_number < MaxBlocks
    /\ calls' = calls + 1
    /\ system' = inc_block_number(system)
    /\ last' = Call("inc_block_number", None, None, 0, <<>>, "Ok", 0)
    /\ UNCHANGED <<balances, staking, overflow_checks, panicked, submitted>>

IncNonce(who) ==
    /\ calls < MaxSystemCalls
    /\ calls' = calls + 1
    /\ system' = inc_nonce(system, who)
    /\ last' = Call("inc_nonce", who, None, 0, <<>>, "Ok", 0)
    /\ UNCHANGED <<balances, staking, overflow_checks, panicked, submitted>>

FinalizeBlock ==
    /\ calls < MaxSystemCalls
    /\ calls' = calls + 1
    /\ \E r \in {finalize_block(system)} :
           /\ system' = r.st
           /\ last' = Call("finalize_block", None, None, system.block_number, <<>>,
                           "Ok", r.val)
    /\ UNCHANGED <<balances, staking, overflow_checks, panicked, submitted>>

GetBlockHash(n) ==
    /\ calls < MaxSystemCalls
    /\ calls' = calls + 1
    /\ last' = Call("get_block_hash", None, None, n, <<>>, "Ok", get_block_hash(system, n))
    /\ UNCHANGED <<system, balances, staking, overflow_checks, panicked, submitted>>

InitSystem ==
    /\ system = system_new
    /\ balances = balances_new
    /\ staking = staking_new
    /\ overflow_checks \in BOOLEAN
    /\ panicked = FALSE
    /\ submitted = NoSubmissions
    /\ calls = 0
    /\ last = Call("new", None, None, 0, <<>>, "Ok", 0)

NextSystem ==
    \/ IncBlockNumber
    \/ \E who \in NonceAccounts : IncNonce(who)
    \/ FinalizeBlock
    \/ \E n \in 0..MaxBlocks : GetBlockHash(n)

\* The system pallet on its own.
SpecSystem == InitSystem /\ [][NextSystem]_vars

FinalizeBlockImprovement ==
    /\ calls < MaxSystemCalls
    /\ calls' = calls + 1
    /\ \E r \in {improvement_finalize_block(system)} :
           /\ system' = r.st
           /\ last' = Call("finalize_block", None, None, system.block_number, <<>>,
                           "Ok", r.val)
    /\ UNCHANGED <<balances, staking, overflow_checks, panicked, submitted>>

NextSystemImprovement ==
    \/ IncBlockNumber
    \/ \E who \in NonceAccounts : IncNonce(who)
    \/ FinalizeBlockImprovement
    \/ \E n \in 0..MaxBlocks : GetBlockHash(n)

\* The system pallet of system_improvement.rs on its own.
SpecSystemImprovement == InitSystem /\ [][NextSystemImprovement]_vars

\* ---- Runtime ----

\* Transactions a block made by create_block may carry.
RtTransactions ==
    {TxSetBalance("alice", 200), TxSetBalance("alice", BalanceMax),
     TxTransfer("alice", "bob", 100),
     TxAddValidator("v1", 5), TxStake("alice", 100, "v1"),
     TxUnstake("alice"), TxClaimRewards("alice")}

\* Extrinsics a block given to execute_block may carry.
RtExtrinsics ==
    {Extrinsic("alice", CallTransfer("bob", 100)),
     Extrinsic("bob", CallAddValidator("v1", 5)),
     Extrinsic("alice", CallStake("v1", 100)),
     Extrinsic("alice", CallUnstake),
     Extrinsic("alice", CallClaimRewards)}

\* The transactions that name a caller whose nonce execute_transaction raises.
HasCaller(tx) == tx.type \in {"Transfer", "Stake", "Unstake", "ClaimRewards"}

CreateBlock(txs) ==
    /\ ~panicked
    /\ system.block_number < MaxBlocks
    /\ \E r \in {create_block(Cur, txs, overflow_checks)} :
           /\ system' = r.st.system
           /\ balances' = r.st.balances
           /\ staking' = r.st.staking
           /\ panicked' = (r.res = "panic")
           /\ last' = Call("create_block", None, None, r.block_number, txs, r.res,
                           r.results)
    /\ submitted' =
          [a \in AllAccounts |->
              submitted[a]
                + Cardinality({i \in 1..Len(txs) : HasCaller(txs[i]) /\ txs[i].who = a})]
    /\ UNCHANGED <<overflow_checks, calls>>

ExecuteBlock(block) ==
    /\ ~panicked
    /\ system.block_number < MaxBlocks
    /\ \E r \in {execute_block(Cur, block, overflow_checks)} :
           /\ system' = r.st.system
           /\ balances' = r.st.balances
           /\ staking' = r.st.staking
           /\ panicked' = (r.res = "panic")
           /\ last' = Call("execute_block", None, None, block.header.block_number,
                           block.extrinsics, r.res, r.results)
    /\ submitted' =
          [a \in AllAccounts |->
              submitted[a]
                + IF block.header.block_number = system.block_number + 1
                  THEN Cardinality({i \in 1..Len(block.extrinsics) :
                                       block.extrinsics[i].caller = a})
                  ELSE 0]
    /\ UNCHANGED <<overflow_checks, calls>>

\* The state after Runtime::new(), under either build profile.
Init ==
    /\ system = runtime_new.system
    /\ balances = runtime_new.balances
    /\ staking = runtime_new.staking
    /\ overflow_checks \in BOOLEAN
    /\ panicked = FALSE
    /\ submitted = NoSubmissions
    /\ calls = 0
    /\ last = Call("new", None, None, 0, <<>>, "Ok", 0)

\* Blocks given to execute_block: the next block number with any extrinsics, or
\* a block number that is not the next one (the extrinsics are then never run).
RtBlocks ==
    {Block(system.block_number + 1, extrinsics) :
        extrinsics \in SeqsUpTo(RtExtrinsics, MaxTxs)}
      \cup {Block(system.block_number + 2, extrinsics) :
              extrinsics \in SeqsUpTo(RtExtrinsics, 1)}

Next ==
    \/ \E txs \in SeqsUpTo(RtTransactions, MaxTxs) : CreateBlock(txs)
    \/ \E block \in RtBlocks : ExecuteBlock(block)

\* The Runtime: blocks made by create_block and blocks given to execute_block.
Spec == Init /\ [][Next]_vars

----------------------------------------------------------------------------
(* Claims about the balances pallet (checked under SpecBalances).          *)

\* Sum of all account balances of a balances pallet.
TotalBalance(b) == SumOver(b.balances, DOMAIN b.balances)

\* The last call was transfer(sender, receiver, amount).
LastIsTransfer == last.op = "transfer"

\* C1: with a fee recipient configured, a transfer call (successful or
\* failing, any sender and receiver) leaves the sum of all balances as it was.
C1_TransferConservesTotal ==
    (LastIsTransfer /\ last.pre.balances.fee_recipient # None)
        => TotalBalance(balances) = TotalBalance(last.pre.balances)

\* C2: a transfer call that returns an error leaves every balance as it was.
C2_FailedTransferChangesNothing ==
    (LastIsTransfer /\ last.res # "Ok")
        => \A a \in Accounts : balance(balances, a) = balance(last.pre.balances, a)

\* The case of C3: distinct sender and receiver, neither the fee recipient,
\* sender balance >= amount + fee and no sum beyond the Balance range.
C3_Case ==
    LET b == last.pre.balances
        fee == b.base_fee
    IN  /\ LastIsTransfer
        /\ last.who # last.to
        /\ b.fee_recipient \notin {last.who, last.to}
        /\ last.amount + fee <= BalanceMax
        /\ balance(b, last.who) >= last.amount + fee
        /\ balance(b, last.to) + last.amount <= BalanceMax
        /\ b.fee_recipient # None => balance(b, b.fee_recipient) + fee <= BalanceMax

\* C3: in that case transfer returns Ok, the sender is lower by amount + fee,
\* the receiver higher by amount, the fee recipient (when configured) higher
\* by fee, and every other balance is unchanged.
C3_TransferEffect ==
    C3_Case =>
        LET b == last.pre.balances
            fee == b.base_fee
        IN  /\ last.res = "Ok"
            /\ balance(balances, last.who) = balance(b, last.who) - (last.amount + fee)
            /\ balance(balances, last.to) = balance(b, last.to) + last.amount
            /\ b.fee_recipient # None =>
                  balance(balances, b.fee_recipient) = balance(b, b.fee_recipient) + fee
            /\ \A a \in Accounts \ {last.who, last.to, b.fee_recipient} :
                  balance(balances, a) = balance(b, a)
            /\ balances.base_fee = b.base_fee
            /\ balances.fee_recipient = b.fee_recipient

\* Witness of C3: such a transfer with a positive amount and a positive fee
\* paid to a configured recipient.
C3_Witness ==
    /\ C3_Case
    /\ last.amount > 0
    /\ last.pre.balances.base_fee > 0
    /\ last.pre.balances.fee_recipient # None
    /\ last.res = "Ok"

\* C4: transfer returns OverflowInCalculation when amount + fee exceeds the
\* Balance range, and otherwise InsufficientBalance exactly when the sender's
\* balance is below amount + fee.
C4_TransferErrors ==
    LastIsTransfer =>
        LET b == last.pre.balances
            total == last.amount + b.base_fee
        IN  /\ total > BalanceMax => last.res = "OverflowInCalculation"
            /\ total <= BalanceMax =>
                  (last.res = "InsufficientBalance" <=> balance(b, last.who) < total)

\* Witness of C4: the sender covers the amount but not amount + fee.
C4_Witness ==
    /\ LastIsTransfer
    /\ last.res = "InsufficientBalance"
    /\ last.amount > 0
    /\ balance(last.pre.balances, last.who) >= last.amount
    /\ balances = last.pre.balances

\* C5: with no fee recipient configured, a successful transfer lowers the sum
\* of all balances by exactly the fee and a failing one leaves it unchanged.
C5_NoRecipientBurnsFee ==
    (LastIsTransfer /\ last.pre.balances.fee_recipient = None) =>
        TotalBalance(balances) =
            TotalBalance(last.pre.balances)
                - (IF last.res = "Ok" THEN last.pre.balances.base_fee ELSE 0)

----------------------------------------------------------------------------
(* Claims about the staking pallet (checked under SpecStaking).            *)

\* Sum of staked_amount over the StakeInfo records of the accounts in S.
StakedSum(s, S) == SumOver([a \in DOMAIN s.stakes |-> s.stakes[a].staked_amount], S)

\* Sum of staked_amount over all StakeInfo records of s.
StakedTotal(s) == StakedSum(s, DOMAIN s.stakes)

\* Sum of staked_amount over the StakeInfo records of s that name validator v.
StakedWith(s, v) == StakedSum(s, {a \in DOMAIN s.stakes : s.stakes[a].validator = v})

\* Every registered validator's total_stake is the sum of the stakes naming it.
ValidatorTotalsOK(s) ==
    \A v \in DOMAIN s.validators : s.validators[v].total_stake = StakedWith(s, v)

\* C7: in every reachable state total_staked equals the sum of staked_amount
\* over all existing StakeInfo records.
C7_TotalStakedIsSum == staking.total_staked = StakedTotal(staking)

\* The case of C8: a stake or unstake call made while every registered
\* validator's total_stake was the sum of the stakes naming it.
C8_Case ==
    /\ last.op \in {"stake", "unstake"}
    /\ ValidatorTotalsOK(last.pre.staking)

\* C8: stake and unstake leave the set of registered validators as it is and
\* keep every validator's total_stake equal to the sum of staked_amount of the
\* StakeInfo records naming it; so the equality holds after any sequence of
\* them over a fixed set of validators registered with no stake.
C8_StakeUnstakeKeepValidatorTotals ==
    C8_Case =>
        /\ DOMAIN staking.validators = DOMAIN last.pre.staking.validators
        /\ ValidatorTotalsOK(staking)

\* Witness of C8: a successful unstake from a validator that another account
\* still stakes with.
C8_Witness ==
    /\ C8_Case
    /\ last.op = "unstake"
    /\ last.res = "Ok"
    /\ last.val > 0
    /\ \E a \in DOMAIN staking.stakes :
          /\ staking.stakes[a].validator = last.pre.staking.stakes[last.who].validator
          /\ staking.stakes[a].staked_amount > 0

\* C9: in every reachable state, also after remove_validator and a later
\* add_validator of the same id, each registered validator's total_stake
\* equals the sum of staked_amount of the StakeInfo records referencing it.
C9_ValidatorTotalsAlways == ValidatorTotalsOK(staking)

\* C10: unstake(who) returns UnstakingPeriodNotMet and who's StakeInfo remains
\* whenever current_block < stake_block + unstaking_period.
C10_UnstakeLockup ==
    LET s == last.pre.staking
    IN  (/\ last.op = "unstake"
         /\ last.who \in DOMAIN s.stakes
         /\ s.current_block < s.stakes[last.who].stake_block + s.unstaking_period)
        => /\ last.res = "UnstakingPeriodNotMet"
           /\ last.who \in DOMAIN staking.stakes

\* C11: for an account that holds a StakeInfo and whose lock-up period has
\* elapsed (current_block >= stake_block + unstaking_period), unstake returns
\* Ok with exactly its staked_amount, removes the StakeInfo, lowers
\* total_staked by that amount and, when the named validator is registered,
\* lowers that validator's total_stake by the amount and its nominator count
\* by one.
C11_UnstakeEffect ==
    LET s == last.pre.staking
    IN  (/\ last.op = "unstake"
         /\ last.who \in DOMAIN s.stakes
         /\ s.current_block >= s.stakes[last.who].stake_block + s.unstaking_period)
        => LET stake_info == s.stakes[last.who]
               v == stake_info.validator
           IN  /\ last.res = "Ok"
               /\ last.val = stake_info.staked_amount
               /\ last.who \notin DOMAIN staking.stakes
               /\ staking.total_staked = s.total_staked - stake_info.staked_amount
               /\ v \in DOMAIN s.validators =>
                     /\ v \in DOMAIN staking.validators
                     /\ staking.validators[v].total_stake
                           = s.validators[v].total_stake - stake_info.staked_amount
                     /\ staking.validators[v].nominators_count
                           = s.validators[v].nominators_count - 1

\* C12: an account holds a StakeInfo exactly from a successful stake until its
\* next successful unstake: stake on an account that holds one fails
\* AlreadyStaked; unstake, claim_rewards and calculate_rewards on an account
\* that holds none fail NotStaked; and a call adds a StakeInfo only when it is
\* a successful stake (for its caller) and removes one only when it is a
\* successful unstake (of its caller).
C12_StakeInfoLifetime ==
    LET s == last.pre.staking
    IN  /\ (last.op = "stake" /\ last.who \in DOMAIN s.stakes)
              => last.res = "AlreadyStaked"
        /\ (last.op \in {"unstake", "claim_rewards"} /\ last.who \notin DOMAIN s.stakes)
              => last.res = "NotStaked"
        /\ \A a \in AllAccounts \ DOMAIN staking.stakes :
              calculate_rewards(staking, a).res = "NotStaked"
        /\ DOMAIN staking.stakes =
              IF last.op = "stake" /\ last.res = "Ok"
              THEN DOMAIN s.stakes \cup {last.who}
              ELSE IF last.op = "unstake" /\ last.res = "Ok"
              THEN DOMAIN s.stakes \ {last.who}
              ELSE DOMAIN s.stakes

\* C13: for a staker whose validator is registered, calculate_rewards returns
\* base - base * commission_rate / 100 with
\* base = staked_amount * reward_rate * (current_block - last_reward_block) / 1000
\* in integer arithmetic (so 0 when no block has passed since the last claim).
C13_RewardFormula ==
    \A a \in DOMAIN staking.stakes :
        LET stake_info == staking.stakes[a]
            base == (stake_info.staked_amount * staking.reward_rate
                        * (staking.current_block - stake_info.last_reward_block))
                    \div 1000
        IN  stake_info.validator \in DOMAIN staking.validators =>
                calculate_rewards(staking, a) =
                    [res |-> "Ok",
                     val |-> base - (base * staking.validators[stake_info.validator]
                                                 .commission_rate) \div 100]

\* C14: a successful claim_rewards(who) returns the value calculate_rewards(who)
\* had just before the call, sets who's last_reward_block to current_block and
\* raises who's total_rewards by the returned value; a failing claim_rewards
\* (NotStaked, InvalidValidator, RewardCalculationError) changes no staking
\* state.
C14_ClaimEffect ==
    LET s == last.pre.staking
    IN  last.op = "claim_rewards" =>
            IF last.res = "Ok"
            THEN /\ calculate_rewards(s, last.who) = [res |-> "Ok", val |-> last.val]
                 /\ staking.stakes[last.who].last_reward_block = s.current_block
                 /\ staking.stakes[last.who].total_rewards
                       = s.stakes[last.who].total_rewards + last.val
            ELSE /\ last.res \in {"NotStaked", "InvalidValidator", "RewardCalculationError"}
                 /\ staking = s

\* The RewardsPaid events of one claim_rewards per account of `stakers`, each
\* made on s, taken in key order from position i.
RECURSIVE PaidEvents(_, _, _)
PaidEvents(s, stakers, i) ==
    IF i > Len(AccountOrder) THEN <<>>
    ELSE LET a == AccountOrder[i]
             paid == IF a \in stakers /\ claim_rewards(s, a).res = "Ok"
                     THEN <<EvRewardsPaid(a, claim_rewards(s, a).val)>>
                     ELSE <<>>
         IN  paid \o PaidEvents(s, stakers, i + 1)

\* C15: on_block(n) sets current_block to n and leaves the staking state as if
\* claim_rewards had then been called once for each account holding a
\* StakeInfo: every staker's StakeInfo is the one its own claim_rewards call
\* leaves, a staker whose validator is not registered gets InvalidValidator
\* and keeps its StakeInfo unchanged, the event log grows by one RewardsPaid
\* per successful claim, and nothing else changes.
C15_OnBlockIsClaimForAll ==
    LET s == last.pre.staking
        s0 == [s EXCEPT !.current_block = last.amount]
    IN  last.op = "on_block" =>
            /\ staking.current_block = last.amount
            /\ DOMAIN staking.stakes = DOMAIN s.stakes
            /\ \A a \in DOMAIN s.stakes :
                  /\ staking.stakes[a] = claim_rewards(s0, a).st.stakes[a]
                  /\ s.stakes[a].validator \notin DOMAIN s.validators =>
                        /\ calculate_rewards(s0, a).res = "InvalidValidator"
                        /\ staking.stakes[a] = s.stakes[a]
            /\ staking.events = s.events \o PaidEvents(s0, DOMAIN s.stakes, 1)
            /\ staking = [s0 EXCEPT !.stakes = staking.stakes,
                                    !.events = staking.events]

\* Witness of C15: an on_block with two stakers, the first in key order
\* staking with a validator that is no longer registered (skipped), the
\* second paid.
C15_Witness ==
    LET s == last.pre.staking
    IN  /\ last.op = "on_block"
        /\ DOMAIN s.stakes = {"alice", "bob"}
        /\ s.stakes["alice"].validator \notin DOMAIN s.validators
        /\ staking.stakes["alice"] = s.stakes["alice"]
        /\ staking.stakes["bob"].total_rewards > s.stakes["bob"].total_rewards
        /\ staking.stakes["bob"].last_reward_block = last.amount

\* C16: add_validator(id, commission) fails AlreadyValidator when id is
\* registered, TooManyValidators when the registry already holds
\* max_validators entries, InvalidValidator when commission > 100, each time
\* leaving registry and event log unchanged; otherwise it registers id as
\* active with zero total_stake, zero nominators and the given commission.
\* Hence every reachable registry holds at most max_validators entries, each
\* with commission <= 100.
C16_AddValidator ==
    LET s == last.pre.staking
        unchanged == staking.validators = s.validators /\ staking.events = s.events
    IN  /\ Cardinality(DOMAIN staking.validators) <= staking.max_validators
        /\ \A v \in DOMAIN staking.validators :
              staking.validators[v].commission_rate <= 100
        /\ last.op = "add_validator" =>
              IF last.to \in DOMAIN s.validators
              THEN last.res = "AlreadyValidator" /\ unchanged
              ELSE IF Cardinality(DOMAIN s.validators) >= s.max_validators
              THEN last.res = "TooManyValidators" /\ unchanged
              ELSE IF last.amount > 100
              THEN last.res = "InvalidValidator" /\ unchanged
              ELSE /\ last.res = "Ok"
                   /\ staking.validators =
                         Insert(s.validators, last.to,
                                [total_stake |-> 0, commission_rate |-> last.amount,
                                 is_active |-> TRUE, nominators_count |-> 0,
                                 blocks_produced |-> 0])

\* Witness of C16: add_validator of an unregistered id with a valid commission
\* refused because the registry is full.
C16_Witness ==
    /\ last.op = "add_validator"
    /\ last.res = "TooManyValidators"
    /\ last.amount <= 100
    /\ last.to \notin DOMAIN staking.validators
    /\ Cardinality(DOMAIN staking.validators) = staking.max_validators
    /\ staking = last.pre.staking

\* C17: remove_validator(id) fails NotValidator when id is not registered;
\* otherwise it removes only that registry entry and leaves every StakeInfo
\* (those naming id included), total_staked and every other validator
\* unchanged.
C17_RemoveValidator ==
    LET s == last.pre.staking
    IN  last.op = "remove_validator" =>
            IF last.to \notin DOMAIN s.validators
            THEN last.res = "NotValidator" /\ staking = s
            ELSE /\ last.res = "Ok"
                 /\ DOMAIN staking.validators = DOMAIN s.validators \ {last.to}
                 /\ \A v \in DOMAIN staking.validators :
                       staking.validators[v] = s.validators[v]
                 /\ staking.stakes = s.stakes
                 /\ staking.total_staked = s.total_staked

\* Witness of C17: a successful remove_validator of a validator that an
\* account stakes with, while another validator is registered.
C17_Witness ==
    /\ last.op = "remove_validator"
    /\ last.res = "Ok"
    /\ DOMAIN staking.validators # {}
    /\ \E a \in DOMAIN staking.stakes :
          /\ staking.stakes[a].validator = last.to
          /\ staking.stakes[a].staked_amount > 0

\* C18: stake(who, amount, validator, balance_check) fails AlreadyStaked when
\* who holds a StakeInfo, else MinimumStakeNotMet when amount < minimum_stake,
\* else InvalidValidator when validator is unregistered or inactive, else
\* InsufficientBalance when balance_check(who) < amount; when none of these
\* holds and neither the validator's total_stake nor total_staked overflows
\* it returns Ok.
C18_StakeErrors ==
    LET s == last.pre.staking
        who == last.who
        amount == last.amount
        validator == last.to
    IN  last.op = "stake" =>
            IF who \in DOMAIN s.stakes THEN last.res = "AlreadyStaked"
            ELSE IF amount < s.minimum_stake THEN last.res = "MinimumStakeNotMet"
            ELSE IF validator \notin DOMAIN s.validators
            THEN last.res = "InvalidValidator"
            ELSE IF ~s.validators[validator].is_active
            THEN last.res = "InvalidValidator"
            ELSE IF last.input[1] < amount THEN last.res = "InsufficientBalance"
            ELSE (/\ s.validators[validator].total_stake + amount <= BalanceMax
                  /\ s.total_staked + amount <= BalanceMax)
                    => last.res = "Ok"

\* Witness of C18: a stake refused for the caller's balance alone, made while
\* another account stakes with the same validator.
C18_Witness ==
    LET s == last.pre.staking
    IN  /\ last.op = "stake"
        /\ last.res = "InsufficientBalance"
        /\ last.who \notin DOMAIN s.stakes
        /\ last.amount >= s.minimum_stake
        /\ s.minimum_stake > 0
        /\ last.to \in DOMAIN s.validators
        /\ s.validators[last.to].nominators_count > 0
        /\ staking = s

\* C19: a successful stake(who, amount, validator, ..) creates who's StakeInfo
\* with staked_amount = amount, stake_block = last_reward_block =
\* current_block and total_rewards = 0, raises the validator's total_stake
\* and total_staked by amount and the validator's nominator count by one, and
\* changes no other StakeInfo or validator.
C19_StakeEffect ==
    LET s == last.pre.staking
    IN  (last.op = "stake" /\ last.res = "Ok") =>
            /\ staking.stakes =
                  Insert(s.stakes, last.who,
                         [staked_amount |-> last.amount, validator |-> last.to,
                          stake_block |-> s.current_block,
                          last_reward_block |-> s.current_block,
                          total_rewards |-> 0])
            /\ staking.validators =
                  [s.validators EXCEPT ![last.to].total_stake = @ + last.amount,
                                       ![last.to].nominators_count = @ + 1]
            /\ staking.total_staked = s.total_staked + last.amount

----------------------------------------------------------------------------
(* Claims about the Runtime (checked under Spec).                          *)

\* The nonce the system pallet holds for account a (zero when absent).
NonceOf(sy, a) == IF a \in DOMAIN sy.nonce THEN sy.nonce[a] ELSE 0

\* C6: after any sequence of blocks the nonce of every account equals the
\* number of extrinsics the executed blocks carried with that account as
\* caller, failed ones included, and no block lowers a nonce.
C6_NonceCountsExtrinsics ==
    /\ ~panicked => \A a \in AllAccounts : NonceOf(system, a) = submitted[a]
    /\ \A a \in AllAccounts : NonceOf(system, a) >= NonceOf(last.pre.system, a)

\* Witness of C6: a block given to execute_block in which the same caller has
\* one failed and one successful extrinsic, after earlier extrinsics of it.
C6_Witness ==
    /\ last.op = "execute_block"
    /\ last.res = "Ok"
    /\ Len(last.input) = 2
    /\ last.input[1].caller = last.input[2].caller
    /\ \E i, j \in 1..2 : last.val[i] = "Ok" /\ last.val[j] # "Ok"
    /\ NonceOf(last.pre.system, last.input[1].caller) > 0
    /\ NonceOf(system, last.input[1].caller)
          = NonceOf(last.pre.system, last.input[1].caller) + 2

\* C20: execute_block on a block whose header number differs from the current
\* block number + 1 returns the error "block number does not match what is
\* expected", dispatches none of its extrinsics (balances and staking are
\* untouched) and increments no nonce; a block whose header number matches is
\* accepted and every extrinsic of it is dispatched.
C20_HeaderCheck ==
    LET pre == last.pre
    IN  last.op = "execute_block" =>
            IF last.amount # pre.system.block_number + 1
            THEN /\ last.res = "block number does not match what is expected"
                 /\ last.val = <<>>
                 /\ system.nonce = pre.system.nonce
                 /\ balances = pre.balances
                 /\ staking = pre.staking
            ELSE /\ last.res = "Ok"
                 /\ Len(last.val) = Len(last.input)

\* Witness of C20: a block with a wrong header number that carries an
\* extrinsic, given after another block's extrinsic has raised a nonce.
C20_Witness ==
    /\ last.op = "execute_block"
    /\ last.amount # last.pre.system.block_number + 1
    /\ Len(last.input) > 0
    /\ last.res = "block number does not match what is expected"
    /\ DOMAIN system.nonce # {}
    /\ system.nonce = last.pre.system.nonce

RECURSIVE DispatchedInOrder(_, _, _, _)
RECURSIVE AfterDispatched(_, _, _, _)
\* The extrinsic loop of execute_block read as a fold over the runtime alone:
\* each extrinsic from position i on has its caller's nonce raised and is
\* dispatched once, in list order; an Err stops nothing, a panic ends the
\* loop where it happens.
DispatchedInOrder(rt, extrinsics, i, checks) ==
    IF i > Len(extrinsics) THEN rt
    ELSE AfterDispatched(
             dispatch([rt EXCEPT !.system = inc_nonce(@, extrinsics[i].caller)],
                      extrinsics[i].caller, extrinsics[i].call, checks),
             extrinsics, i, checks)

\* The fold once the dispatch of extrinsic i has returned r.
AfterDispatched(r, extrinsics, i, checks) ==
    IF r.res = "panic" THEN r.st
    ELSE DispatchedInOrder(r.st, extrinsics, i + 1, checks)

RECURSIVE ExecutedInOrder(_, _, _, _)
RECURSIVE AfterExecuted(_, _, _, _)
\* The transaction loop of create_block read as a fold over the runtime alone:
\* each transaction from position i on is executed once, in list order; an Err
\* stops nothing, a panic ends the loop where it happens.
ExecutedInOrder(rt, txs, i, checks) ==
    IF i > Len(txs) THEN rt
    ELSE AfterExecuted(execute_transaction(rt, txs[i], checks), txs, i, checks)

\* The fold once transaction i has returned r.
AfterExecuted(r, txs, i, checks) ==
    IF r.res = "panic" THEN r.st
    ELSE ExecutedInOrder(r.st, txs, i + 1, checks)

\* The runtime create_block hands to its transaction loop: block number raised
\* and the staking pallet notified of the new block.
BlockOpened(rt) ==
    [rt EXCEPT !.system = inc_block_number(@),
               !.staking = on_block(@, rt.system.block_number + 1)]

\* C21: execute_block (matching header) and create_block execute every
\* extrinsic of the block exactly once, in list order: one result (Ok or an
\* error, never a panic) per extrinsic, the state after the block is the
\* state after running each extrinsic in turn on what the earlier ones left
\* (a failing one keeps its nonce increment, undoes nothing and stops
\* nothing), and execute_block returns Ok.
C21_EveryExtrinsicRuns ==
    /\ last.op \in {"execute_block", "create_block"} =>
          \A i \in 1..Len(last.val) : last.val[i] # "panic"
    /\ last.op = "execute_block" /\ last.amount = last.pre.system.block_number + 1 =>
          /\ last.res = "Ok"
          /\ Len(last.val) = Len(last.input)
          /\ Cur = DispatchedInOrder([last.pre EXCEPT !.system = inc_block_number(@)],
                                     last.input, 1, overflow_checks)
    /\ last.op = "create_block" =>
          /\ Len(last.val) = Len(last.input)
          /\ \E e \in {ExecutedInOrder(BlockOpened(last.pre), last.input, 1,
                                       overflow_checks)} :
                /\ balances = e.balances
                /\ staking = e.staking
                /\ system.nonce = e.system.nonce

\* The last call executed a block: create_block, or execute_block on a block
\* whose header carries the next block number, and ran to its end.
BlockExecuted ==
    /\ ~panicked
    /\ \/ last.op = "create_block"
       \/ last.op = "execute_block" /\ last.amount = last.pre.system.block_number + 1

\* C22: every executed block ends with its finalization: a hash is stored for
\* the block's number, and if verify_chain_integrity held before the block (a
\* hash for every number from 1 to the block number) it holds after it.
C22_ExecutedBlocksAreFinalized ==
    BlockExecuted =>
        /\ current_block_hash(system).some
        /\ verify_chain_integrity(last.pre) => verify_chain_integrity(Cur)

\* C23: the staking on_block hook runs for every executed block with that
\* block's number: after an executed block the staking pallet's current_block
\* equals the system block number.
C23_OnBlockEveryBlock ==
    BlockExecuted => staking.current_block = block_number(system)

\* C24: the Runtime's dispatch of a Balances call changes only the balances
\* pallet and of a Staking call only the staking pallet, each exactly as the
\* module's own dispatch does, and returns what the module's dispatch returned
\* (Ok, or the same error).  Stated for the last extrinsic of a block given to
\* execute_block, against the runtime the earlier extrinsics left.
C24_DispatchRoutes ==
    last.op = "execute_block" /\ last.amount = last.pre.system.block_number + 1
                              /\ Len(last.input) > 0 =>
        \E n \in {Len(last.input)} :
        \E before \in {DispatchedInOrder(
                           [last.pre EXCEPT !.system = inc_block_number(@)],
                           SubSeq(last.input, 1, n - 1), 1, overflow_checks)} :
            /\ system = inc_nonce(before.system, last.input[n].caller)
            /\ IF last.input[n].call.pallet = "Balances"
               THEN \E m \in {balances_dispatch(before.balances, last.input[n].caller,
                                                last.input[n].call)} :
                       /\ balances = m.st
                       /\ staking = before.staking
                       /\ last.val[n] = m.res
               ELSE \E m \in {staking_dispatch(before.staking, last.input[n].caller,
                                               last.input[n].call, overflow_checks)} :
                       /\ staking = m.st
                       /\ balances = before.balances
                       /\ last.val[n] = m.res

\* Witness of C24: a block whose first extrinsic is a Staking call that
\* succeeds and changes the staking pallet and whose second is a Balances call
\* that fails: the module's error is what the runtime returned for it.
C24_Witness ==
    /\ last.op = "execute_block"
    /\ Len(last.input) = 2
    /\ Len(last.val) = 2
    /\ last.input[1].call.pallet = "Staking"
    /\ last.val[1] = "Ok"
    /\ staking # last.pre.staking
    /\ last.input[2].call.pallet = "Balances"
    /\ last.val[2] = "Transfer failed"
    /\ balances = last.pre.balances

\* C25: a RuntimeCall::Staking(Stake{validator, amount}) extrinsic whose caller
\* meets all of stake's preconditions (a stake call with the caller's balance
\* would return Ok) succeeds and creates the caller's StakeInfo, as a
\* Transaction::Stake does.  Stated for the last extrinsic of a block given to
\* execute_block, against the runtime the earlier extrinsics left.
C25_StakeExtrinsicStakes ==
    last.op = "execute_block" /\ last.amount = last.pre.system.block_number + 1
                              /\ Len(last.input) > 0 =>
        \E n \in {Len(last.input)} :
        \E before \in {DispatchedInOrder(
                           [last.pre EXCEPT !.system = inc_block_number(@)],
                           SubSeq(last.input, 1, n - 1), 1, overflow_checks)} :
            (/\ last.input[n].call.pallet = "Staking"
             /\ last.input[n].call.call = "Stake"
             /\ stake(before.staking, last.input[n].caller, last.input[n].call.amount,
                      last.input[n].call.to,
                      balance(before.balances, last.input[n].caller),
                      overflow_checks).res = "Ok")
            => /\ last.val[n] = "Ok"
               /\ last.input[n].caller \in DOMAIN staking.stakes

----------------------------------------------------------------------------
(* Claims about the system pallet (checked under SpecSystem and            *)
(* SpecSystemImprovement).                                                 *)

\* What one call on a system pallet can leave: the pallet itself and the
\* pallet after inc_block_number, inc_nonce or finalize_block.
SystemSteps(sy) ==
    {sy, inc_block_number(sy), finalize_block(sy).st}
      \cup {inc_nonce(sy, who) : who \in NonceAccounts}

\* The system pallets that at most k calls after Pallet::new() can leave.
RECURSIVE SystemsAfter(_)
SystemsAfter(k) ==
    IF k = 0 THEN {system_new}
    ELSE UNION {SystemSteps(sy) : sy \in SystemsAfter(k - 1)}

\* The pallets a second run of the system pallet may be in.
SystemPallets == SystemsAfter(MaxCalls)

\* The hash stored for the block before the current one, if any.
PreviousHash(sy) ==
    IF sy.block_number > 0 THEN get_block_hash(sy, sy.block_number - 1) ELSE NoneHash

\* Two system pallets agree on the block number, on the nonce data (count and
\* sum of the tracked nonces) and on the hash stored for the previous block.
SameHashInputs(a, b) ==
    /\ a.block_number = b.block_number
    /\ Cardinality(DOMAIN a.nonce) = Cardinality(DOMAIN b.nonce)
    /\ SumOver(a.nonce, DOMAIN a.nonce) = SumOver(b.nonce, DOMAIN b.nonce)
    /\ PreviousHash(a) = PreviousHash(b)

\* What one call on a system pallet of system_improvement.rs can leave.
ImprovementSteps(sy) ==
    {sy, inc_block_number(sy), improvement_finalize_block(sy).st}
      \cup {inc_nonce(sy, who) : who \in NonceAccounts}

\* The system_improvement.rs pallets that at most k calls after Pallet::new()
\* can leave.
RECURSIVE ImprovementsAfter(_)
ImprovementsAfter(k) ==
    IF k = 0 THEN {system_new}
    ELSE UNION {ImprovementSteps(sy) : sy \in ImprovementsAfter(k - 1)}

\* The pallets a second run of the system_improvement.rs pallet may be in.
ImprovementPallets == ImprovementsAfter(MaxCalls)

\* system.rs: any two pallets that agree on block number, nonce data and
\* previous hash record the same hash.
SystemHashDependsOnlyOn ==
    \A a \in SystemPallets : \A b \in SystemPallets :
        SameHashInputs(a, b) => finalize_block(a).val = finalize_block(b).val

\* The hash stored under block_number.saturating_sub(1): the previous block's,
\* and at block number 0 the one an earlier finalization of block 0 stored.
HashBelow(sy) == get_block_hash(sy, saturating_sub(sy.block_number, 1))

\* C26: the hash finalize_block records depends only on the current block
\* number, the nonce data and the hash stored for the previous block: any
\* other system pallet that agrees with the finalized one on these three
\* records the same hash for the block.  Stated for system.rs over all pairs
\* of its pallets, and for each finalization of system_improvement.rs against
\* all of its pallets.
C26_HashDependsOnlyOn ==
    /\ last.op = "new" => SystemHashDependsOnlyOn
    /\ last.op = "finalize_block" =>
          \A other \in ImprovementPallets :
              SameHashInputs(last.pre.system, other) =>
                  /\ improvement_finalize_block(other).val = last.val
                  /\ get_block_hash(improvement_finalize_block(other).st,
                                    other.block_number)
                        = get_block_hash(system, system.block_number)

\* C26 amended: the same, where at block number 0 the two pallets must also
\* agree on the hash already stored for block 0, which system_improvement.rs
\* reads in place of a previous block's hash.
C26_HashDependsAmended ==
    /\ last.op = "new" => SystemHashDependsOnlyOn
    /\ last.op = "finalize_block" =>
          \A other \in ImprovementPallets :
              (/\ SameHashInputs(last.pre.system, other)
               /\ HashBelow(last.pre.system) = HashBelow(other)) =>
                  /\ improvement_finalize_block(other).val = last.val
                  /\ get_block_hash(improvement_finalize_block(other).st,
                                    other.block_number)
                        = get_block_hash(system, system.block_number)

\* Witness of C26: a second finalization of block 0 after a nonce was raised,
\* where another pallet agrees on block number, nonce data and the hash stored
\* for block 0 but tracks a different account.
C26_Witness ==
    /\ last.op = "finalize_block"
    /\ last.pre.system.block_number = 0
    /\ HashBelow(last.pre.system).some
    /\ SumOver(last.pre.system.nonce, DOMAIN last.pre.system.nonce) > 0
    /\ \E other \in ImprovementPallets :
          /\ SameHashInputs(last.pre.system, other)
          /\ HashBelow(last.pre.system) = HashBelow(other)
          /\ other.nonce # last.pre.system.nonce

\* C27: block hashes are chained: for a block with number > 0 whose previous
\* block has a stored hash, any other pallet with the same block number and
\* nonce data but a different stored previous hash records a different hash.
C27_HashChained ==
    last.op = "finalize_block" /\ PreviousHash(last.pre.system).some =>
        \A other \in SystemPallets :
            (/\ other.block_number = last.pre.system.block_number
             /\ other.nonce = last.pre.system.nonce
             /\ PreviousHash(other).some
             /\ PreviousHash(other) # PreviousHash(last.pre.system))
            => finalize_block(other).val # last.val

\* C28: the hash stored for block n changes only through a finalize_block made
\* while the block number is n: every other call, and the finalization of any
\* other block, keeps it; get_block_hash(n) changes nothing and returns what
\* is stored, so a repeated call returns the same; finalize_block stores the
\* hash it returned under the current block number and adds no other entry,
\* so the record never holds an entry above the current block number and
\* after finalizing blocks 0..k it holds exactly those k+1 entries.
C28_StoredHashFrame ==
    LET pre == last.pre.system
    IN  /\ \A n \in DOMAIN pre.block_hashes :
              (last.op # "finalize_block" \/ pre.block_number # n) =>
                  get_block_hash(system, n) = get_block_hash(pre, n)
        /\ last.op = "get_block_hash" =>
              /\ system = pre
              /\ last.val = get_block_hash(system, last.amount)
        /\ last.op = "finalize_block" =>
              /\ get_block_hash(system, pre.block_number) = SomeHash(last.val)
              /\ DOMAIN system.block_hashes
                    = DOMAIN pre.block_hashes \cup {pre.block_number}
        /\ last.op # "finalize_block" =>
              DOMAIN system.block_hashes = DOMAIN pre.block_hashes
        /\ DOMAIN all_block_hashes(system) \subseteq 0..block_number(system)

\* Witness of C28: block 2 is finalized after blocks 0 and 1 were, with a
\* nonce raised in between: the record holds the three entries 0..2 and those
\* of blocks 0 and 1 are the ones stored before.
C28_Witness ==
    /\ last.op = "finalize_block"
    /\ last.pre.system.block_number = 2
    /\ DOMAIN last.pre.system.block_hashes = {0, 1}
    /\ DOMAIN system.block_hashes = {0, 1, 2}
    /\ Cardinality(DOMAIN all_block_hashes(system)) = 3
    /\ system.nonce # EmptyMap
    /\ system.block_hashes[0] = last.pre.system.block_hashes[0]
    /\ system.block_hashes[1] = last.pre.system.block_hashes[1]
    /\ system.block_hashes[2] = last.val

\* C29: blocks finalized with different block numbers have different hashes:
\* get_block_hash(m) # get_block_hash(n) for any two stored blocks m # n.
C29_DistinctBlocksDistinctHashes ==
    \A m, n \in DOMAIN all_block_hashes(system) :
        m # n => get_block_hash(system, m) # get_block_hash(system, n)

\* C30: calling finalize_block twice with no operation in between returns the
\* same hash both times, in any state, and leaves a single stored entry for
\* that block number.  Stated in the state a finalize_block of
\* system_improvement.rs has left: the next finalize_block returns the hash
\* the last one returned and leaves the record as it is.
C30_RefinalizeSameHash ==
    last.op = "finalize_block" =>
        /\ improvement_finalize_block(system).val = last.val
        /\ improvement_finalize_block(system).st = system

\* C30 as amended: the second finalize_block returns the same hash as the
\* first whenever the block number is greater than 0 or the nonces sum to 0;
\* in every state the two calls leave a single entry for the block number (no
\* entry is added) and that entry holds the hash of the second call.
C30_RefinalizeAmended ==
    last.op = "finalize_block" =>
        /\ (\/ system.block_number > 0
            \/ SumOver(system.nonce, DOMAIN system.nonce) = 0)
           => /\ improvement_finalize_block(system).val = last.val
              /\ improvement_finalize_block(system).st = system
        /\ DOMAIN improvement_finalize_block(system).st.block_hashes
              = DOMAIN system.block_hashes
        /\ get_block_hash(improvement_finalize_block(system).st, system.block_number)
              = SomeHash(improvement_finalize_block(system).val)

\* Witness of C30 as amended: block 1 is finalized a second time in a row
\* (the state before already held the same hash for it), with nonces tracked
\* and block 0 finalized, and the hash returned is again the stored one.
C30_Witness ==
    /\ last.op = "finalize_block"
    /\ last.pre.system.block_number = 1
    /\ system.nonce # EmptyMap
    /\ get_block_hash(last.pre.system, 0).some
    /\ get_block_hash(last.pre.system, 1) = SomeHash(last.val)
    /\ system = last.pre.system

\* C31: parent_block_hash returns None while the block number is 0 and
\* otherwise the hash stored for block number - 1 (None when there is none),
\* whether or not the current block has itself been finalized.
C31_ParentIsPreviousBlock ==
    parent_block_hash(system) = PreviousHash(system)

\* The event a successful staking call pushes, from the recorded call.
EventOf(c) ==
    CASE c.op = "add_validator" -> EvValidatorAdded(c.to)
      [] c.op = "remove_validator" -> EvValidatorRemoved(c.to)
      [] c.op = "stake" -> EvStaked(c.who, c.amount, c.to)
      [] c.op = "unstake" -> EvUnstaked(c.who, c.pre.staking.stakes[c.who].staked_amount)
      [] c.op = "claim_rewards" -> EvRewardsPaid(c.who, c.pre.staking.reward_rate)

\* old is an initial segment of new.
IsPrefix(old, new) ==
    /\ Len(old) <= Len(new)
    /\ SubSeq(new, 1, Len(old)) = old

LoggedOps == {"add_validator", "remove_validator", "stake", "unstake", "claim_rewards"}

\* C32: a successful add_validator, remove_validator, stake, unstake or
\* claim_rewards appends exactly one event of its kind with its account and
\* amount, a failing one appends nothing, and every call but clear_events
\* keeps the events already logged, in order, at the front of the log.
C32_EventLogAppendOnly ==
    /\ last.op \in LoggedOps =>
           IF last.res = "Ok"
           THEN staking.events = Append(last.pre.staking.events, EventOf(last))
           ELSE staking.events = last.pre.staking.events
    /\ last.op # "clear_events" =>
           IsPrefix(last.pre.staking.events, staking.events)

C32_Witness ==
    /\ last.op = "unstake"
    /\ last.res = "Ok"
    /\ Len(last.pre.staking.events) >= 2
    /\ staking.events[Len(staking.events)] = EvUnstaked(last.who, last.val)

\* C33: a stake or unstake call that returns an error, RewardCalculationError
\* included, leaves stakes, validators, total_staked and the event log as
\* they were before the call.
C33_FailedCallLeavesState ==
    (last.op \in {"stake", "unstake"} /\ last.res \notin {"Ok", "panic"}) =>
        /\ staking.stakes = last.pre.staking.stakes
        /\ staking.validators = last.pre.staking.validators
        /\ staking.total_staked = last.pre.staking.total_staked
        /\ staking.events = last.pre.staking.events

\* The runtime the last item of the block recorded in `last` ran on: what the
\* earlier transactions (create_block) or extrinsics (execute_block) left.
BeforeLastItem ==
    IF last.op = "create_block"
    THEN ExecutedInOrder(BlockOpened(last.pre),
                         SubSeq(last.input, 1, Len(last.input) - 1), 1, overflow_checks)
    ELSE DispatchedInOrder([last.pre EXCEPT !.system = inc_block_number(@)],
                           SubSeq(last.input, 1, Len(last.input) - 1), 1, overflow_checks)

\* The last item of the recorded block as (kind, caller, amount), whichever
\* path carried it.
LastItem ==
    LET x == last.input[Len(last.input)]
    IN  IF last.op = "create_block"
        THEN [kind |-> x.type, who |-> x.who, amount |-> x.amount]
        ELSE [kind |-> IF x.call.pallet = "Staking" THEN x.call.call ELSE "Other",
              who |-> x.caller, amount |-> x.call.amount]

\* Spendable balances plus locked stake.
Funds(b, s) == TotalBalance(b) + s.total_staked

\* C34: on both paths a successful Stake lowers the staker's spendable balance
\* by the staked amount and a successful Unstake raises it by the freed
\* amount, so spendable balances plus total_staked stay the same.  Stated for
\* the last item of a block, against the runtime the earlier items left.
C34_StakingOnlyLocks ==
    (/\ last.op \in {"create_block", "execute_block"}
     /\ Len(last.input) > 0
     /\ Len(last.val) = Len(last.input)
     /\ last.val[Len(last.val)] = "Ok"
     /\ LastItem.kind \in {"Stake", "Unstake"}) =>
        \E before \in {BeforeLastItem} :
        \E who \in {LastItem.who} :
            /\ LastItem.kind = "Stake" =>
                   balance(balances, who)
                     = balance(before.balances, who) - LastItem.amount
            /\ LastItem.kind = "Unstake" =>
                   balance(balances, who)
                     = balance(before.balances, who)
                         + before.staking.stakes[who].staked_amount
            /\ Funds(balances, staking) = Funds(before.balances, before.staking)

\* C35: a block that execute_block rejects for a wrong header number leaves
\* the whole runtime as it was, the system block number included, so a block
\* carrying the number expected before the rejection is still accepted.
C35_RejectedBlockLeavesState ==
    (last.op = "execute_block"
       /\ last.res = "block number does not match what is expected") =>
        /\ Cur = last.pre
        /\ execute_block(Cur, Block(last.pre.system.block_number + 1, <<>>),
                         overflow_checks).res = "Ok"

\* The number of StakeInfo records naming validator v.
NominatorsOf(s, v) == Cardinality({a \in DOMAIN s.stakes : s.stakes[a].validator = v})

\* unstake(who) on s reaches `nominators_count -= 1` with the count at 0.
DecrementsZero(s, who) ==
    /\ who \in DOMAIN s.stakes
    /\ s.current_block >= s.stakes[who].stake_block
    /\ s.stakes[who].validator \in DOMAIN s.validators
    /\ s.validators[s.stakes[who].validator].total_stake >= s.stakes[who].staked_amount
    /\ s.validators[s.stakes[who].validator].nominators_count = 0

\* C36: in every reachable state, also after remove_validator and a later
\* add_validator of the same id, each registered validator's nominators_count
\* is the number of StakeInfo records naming it, and no unstake call
\* decrements a nominators_count of 0.
C36_NominatorsCounted ==
    /\ \A v \in DOMAIN staking.validators :
           staking.validators[v].nominators_count = NominatorsOf(staking, v)
    /\ last.op = "unstake" => ~DecrementsZero(last.pre.staking, last.who)

\* The staking events emitted while create_block runs txs on rt: the log the
\* block leaves when it starts from an empty log.
EmittedDuring(rt, txs, checks) ==
    create_block([rt EXCEPT !.staking = clear_events(@)], txs, checks).st.staking.events

\* C37: the staking event log is cleared once per block: at the end of a
\* block made by create_block the log holds exactly the events emitted
\* during that block, none from earlier blocks.
C37_EventsOfThisBlockOnly ==
    (last.op = "create_block" /\ last.res # "panic") =>
        staking.events = EmittedDuring(last.pre, last.input, overflow_checks)

\* What the last transaction of a create_block block, having returned Ok,
\* adds to its caller's spendable balance when computed without overflow.
ExactBalanceChange(before) ==
    CASE LastItem.kind = "Stake" -> 0 - LastItem.amount
      [] LastItem.kind = "Unstake" -> before.staking.stakes[LastItem.who].staked_amount
      [] LastItem.kind = "ClaimRewards" -> before.staking.reward_rate

\* C38: with the integer types bounded to their widths no transaction or
\* extrinsic overflows or underflows unchecked: no block panics, and a Stake,
\* Unstake or ClaimRewards transaction that returns Ok leaves its caller the
\* exact balance, never a wrapped one.
C38_NoUncheckedArithmetic ==
    /\ ~panicked
    /\ (/\ last.op = "create_block"
        /\ Len(last.input) > 0
        /\ Len(last.val) = Len(last.input)
        /\ last.val[Len(last.val)] = "Ok"
        /\ LastItem.kind \in {"Stake", "Unstake", "ClaimRewards"}) =>
           \E before \in {BeforeLastItem} :
               balance(balances, LastItem.who)
                 = balance(before.balances, LastItem.who) + ExactBalanceChange(before)

\* The kind of item i of the block recorded in `last`, on either path.
ItemKind(i) ==
    IF last.op = "create_block" THEN last.input[i].type ELSE last.input[i].call.call

\* The rewards recorded for staker a in s (0 without a stake).
RewardsOf(s, a) == IF a \in DOMAIN s.stakes THEN s.stakes[a].total_rewards ELSE 0

\* C39: rewards recorded for a staker are paid to that staker in the same
\* block: over a block whose items are only ClaimRewards and AddValidator
\* (nothing else that moves a balance), every staker's spendable balance grows
\* by what its total_rewards grew by, whether through a ClaimRewards
\* transaction, a ClaimRewards extrinsic or the per-block distribution.
C39_RewardsArePaid ==
    (/\ last.op \in {"create_block", "execute_block"}
     /\ last.res = "Ok"
     /\ \A i \in 1..Len(last.input) : ItemKind(i) \in {"ClaimRewards", "AddValidator"}) =>
        \A a \in DOMAIN last.pre.staking.stakes :
            balance(balances, a) - balance(last.pre.balances, a)
              = RewardsOf(staking, a) - RewardsOf(last.pre.staking, a)

\* C40: get_staking_stats returns, in any reachable state, total_staked equal
\* to the sum of all current stakes, total_validators, active_validators and
\* total_stakers equal to the sizes of the registries, and average_stake equal
\* to total_staked divided by the number of stakers (zero when there are none).
C40_StatsAreFresh ==
    \E stats \in {get_staking_stats(staking)} :
        /\ stats.total_staked = StakedTotal(staking)
        /\ stats.total_validators = Cardinality(DOMAIN staking.validators)
        /\ stats.active_validators
             = Cardinality({v \in DOMAIN staking.validators :
                               staking.validators[v].is_active})
        /\ stats.total_stakers = Cardinality(DOMAIN staking.stakes)
        /\ stats.average_stake
             = IF DOMAIN staking.stakes = {} THEN 0
               ELSE staking.total_staked \div Cardinality(DOMAIN staking.stakes)

====
